---- MODULE Spec2Model ----
(***************************************************************************)
(* horizon-pkg-build: the concurrent package build.                        *)
(*                                                                         *)
(* create.NewPkg (the orchestrator) spawns one exportDockerImage worker    *)
(* per image, joins them on a sync.WaitGroup, reads the reporter's         *)
(* DelegateErrorCount and then builds, writes and signs the manifest and   *)
(* renames the temporary directory.  Errors travel over the unbuffered     *)
(* errChannel of cmdtools.SynchronizedReporter to the one consumer         *)
(* goroutine started by DelegateErrorConsumer, which increments            *)
(* DelegateErrorCount and runs the handler createAction registered.        *)
(***************************************************************************)
EXTENDS Integers, Sequences, FiniteSets, TLC

\* The longest image list NewPkg is called with.
MaxImages == 2

\* The most goroutines that write to one stream of the reporter at a time.
MaxWriters == 2

\* The longest message of one write call, in bytes.
MaxMsgLen == 3

\* The length of startPipeWatch's buffer (main passes 512), scaled down so
\* that messages longer than the buffer occur.
bufferLen == 2

(***************************************************************************)
(* Inputs.  An image reference is a string; it is kept as the sequence of  *)
(* its characters so that strings.Split and strings.Replace are computed.  *)
(***************************************************************************)
TaggedImage == <<"h", "/", "a", ":", "1">>
UntaggedImage == <<"a">>
ImageRefs == {TaggedImage, UntaggedImage}

\* A tagged image reference without a registry host, for single calls of
\* writeDockerImage.
HostlessImage == <<"a", ":", "1">>
CallImages == ImageRefs \cup {HostlessImage}

\* docker.AuthConfiguration, its zero value, and the credential sets
\* (*docker.AuthConfigurations) a call is made with: nil, or Configs, kept as
\* the sequence in which a range over the map visits its entries.
NoAuth == [Username |-> "", ServerAddress |-> <<>>]
AuthEntries ==
    {[Username |-> "timmy", ServerAddress |-> <<"h">>],
     [Username |-> "foo", ServerAddress |-> <<"h">>],
     [Username |-> "bar", ServerAddress |-> <<"x">>]}
NilAuthConfigurations == [nil |-> TRUE, Configs |-> <<>>]
AuthConfigurationSets ==
    {NilAuthConfigurations}
        \cup {[nil |-> FALSE, Configs |-> c] :
                  c \in {<<>>} \cup {<<x>> : x \in AuthEntries}
                        \cup {<<x, y>> : x, y \in AuthEntries}}

\* The byte streams ExportImage may write for an image.
Contents == {<<1>>, <<2>>}

Workers == 1..MaxImages

\* The index NewPkg reports errors under in the history variables; the
\* workers are numbered from 1, by their image's place in the list.
Orchestrator == 0

NoPart == [id |-> -1]
NoFile == <<"nofile">>
NoError == [UserError |-> FALSE, Breaking |-> FALSE, msg |-> <<>>]

(***************************************************************************)
(* Pure functions of the create package.                                   *)
(***************************************************************************)

\* strings.Split(s, sep) for a one-character separator: the pieces of s
\* between the occurrences of sep (always at least one piece).
RECURSIVE Split(_, _)
Split(s, sep) ==
    IF \A i \in 1..Len(s) : s[i] # sep
    THEN <<s>>
    ELSE LET i == CHOOSE k \in 1..Len(s) :
                     s[k] = sep /\ \A j \in 1..(k - 1) : s[j] # sep
         IN <<SubSeq(s, 1, i - 1)>> \o Split(SubSeq(s, i + 1, Len(s)), sep)

\* gzip of a byte stream: the two magic bytes, the payload, and the trailer
\* carrying the length of the input.
Gzip(bytes) == <<31, 139>> \o bytes \o <<Len(bytes)>>

\* sha256 of a byte stream, as a number: a positional fold that is free of
\* collisions on the byte streams of the model.
RECURSIVE Sha256(_)
Sha256(bytes) ==
    IF bytes = <<>> THEN 7
    ELSE (Sha256(SubSeq(bytes, 1, Len(bytes) - 1)) * 257 + bytes[Len(bytes)] + 1) % 65536

\* The steps of writeDockerImage that can return an error, by the call that
\* fails; "none" when every call succeeds.
ExportFailures == {"TempFile", "ListImages", "PullImage", "ExportImage", "Sync"}
CompressFailures == {"TempFileC", "Copy"}
HashFailures == {"CopyHash", "Chmod", "Rename"}
FailPoints == {"none"} \cup ExportFailures \cup CompressFailures \cup HashFailures

\* imageExistsAtTarget: whether one of the RepoTags that ListImages returned
\* (it is called with Filter: image) equals the image reference.
imageExistsAtTarget(listed, image) == \E t \in listed : t = image

\* The credentials exportImageToFile passes to PullImage for the repository
\* repo (the image reference up to the ':'): with a credential set, and a
\* '/' in repo, the last visited entry whose ServerAddress is the text before
\* the first '/'; else the zero value.
RECURSIVE LastMatch(_, _)
LastMatch(configs, serverAddress) ==
    IF configs = <<>> THEN NoAuth
    ELSE IF configs[Len(configs)].ServerAddress = serverAddress
    THEN configs[Len(configs)]
    ELSE LastMatch(SubSeq(configs, 1, Len(configs) - 1), serverAddress)

\* Mutant of RepoAuth: the entries are matched against the whole repository.
RepoAuthWholeRepo(authConfigurations, repo) ==
    IF authConfigurations.nil THEN NoAuth
    ELSE LastMatch(authConfigurations.Configs, repo)

RepoAuth(authConfigurations, repo) ==
    IF authConfigurations.nil THEN NoAuth
    ELSE LET serverAddressSpl == Split(repo, "/")
         IN  IF Len(serverAddressSpl) > 1
             THEN LastMatch(authConfigurations.Configs, serverAddressSpl[1])
             ELSE NoAuth

\* exportImageToFile(client, authConfigurations, tmpDir, image): err is "" for
\* nil; calls are the container runtime calls made, in order; tmpFile tells
\* whether the temporary .tar file was created in tmpDir; bytes is what
\* ExportImage wrote to it; pullAuth is the credential PullImage was called
\* with.  suffix is the random part of the TempFile name.
exportImageToFile(suffix, authConfigurations, image, listed, content, fail) ==
    LET spl == Split(image, ":")
        imageExists == imageExistsAtTarget(listed, image)
        pull == IF imageExists THEN <<>> ELSE <<"PullImage">>
        repoAuth == IF imageExists \/ Len(spl) # 2 THEN NoAuth
                    ELSE RepoAuth(authConfigurations, spl[1])
        none == [err |-> "", calls |-> <<>>, tmpFile |-> FALSE, bytes |-> <<>>,
                 pullAuth |-> NoAuth]
    IN  IF fail = "TempFile"
        THEN [none EXCEPT !.err = "TempFile"]
        ELSE IF fail = "ListImages"
        THEN [none EXCEPT !.err = "ListImages", !.calls = <<"ListImages">>,
                          !.tmpFile = TRUE]
        ELSE IF ~imageExists /\ Len(spl) # 2
        THEN [none EXCEPT !.err = "Unable to parse given image name",
                          !.calls = <<"ListImages">>, !.tmpFile = TRUE]
        ELSE IF ~imageExists /\ fail = "PullImage"
        THEN [none EXCEPT !.err = "PullImage",
                          !.calls = <<"ListImages", "PullImage">>,
                          !.tmpFile = TRUE, !.pullAuth = repoAuth]
        ELSE IF fail = "ExportImage"
        THEN [none EXCEPT !.err = "ExportImage",
                          !.calls = <<"ListImages">> \o pull \o <<"ExportImage">>,
                          !.tmpFile = TRUE, !.pullAuth = repoAuth]
        ELSE [err |-> IF fail = "Sync" THEN "Sync" ELSE "",
              calls |-> <<"ListImages">> \o pull \o <<"ExportImage">>,
              tmpFile |-> TRUE,
              bytes |-> content,
              pullAuth |-> repoAuth]

\* Mutant of PullNeeded: the skip-pull option is ignored.
PullNeededIgnoringSkip(imageExists, skipPull) == ~imageExists

\* The pull decision of the exportImageToFile that takes the skip-pull option
\* (the one main.createAction calls through NewPkg): the pull is skipped when
\* the image exists locally and the option is set.
PullNeeded(imageExists, skipPull) == ~(imageExists /\ skipPull)

\* exportImageToFile(client, skipPull, authConfigurations, tmpDir, image):
\* as exportImageToFile above, with the pull decided by PullNeeded.
exportImageToFileSkipPull(suffix, skipPull, authConfigurations, image, listed, content, fail) ==
    LET spl == Split(image, ":")
        imageExists == imageExistsAtTarget(listed, image)
        pullNeeded == PullNeeded(imageExists, skipPull)
        pull == IF pullNeeded THEN <<"PullImage">> ELSE <<>>
        repoAuth == IF ~pullNeeded \/ Len(spl) # 2 THEN NoAuth
                    ELSE RepoAuth(authConfigurations, spl[1])
        none == [err |-> "", calls |-> <<>>, tmpFile |-> FALSE, bytes |-> <<>>,
                 pullAuth |-> NoAuth]
    IN  IF fail = "TempFile"
        THEN [none EXCEPT !.err = "TempFile"]
        ELSE IF fail = "ListImages"
        THEN [none EXCEPT !.err = "ListImages", !.calls = <<"ListImages">>,
                          !.tmpFile = TRUE]
        ELSE IF pullNeeded /\ Len(spl) # 2
        THEN [none EXCEPT !.err = "Unable to parse given image name",
                          !.calls = <<"ListImages">>, !.tmpFile = TRUE]
        ELSE IF pullNeeded /\ fail = "PullImage"
        THEN [none EXCEPT !.err = "PullImage",
                          !.calls = <<"ListImages", "PullImage">>,
                          !.tmpFile = TRUE, !.pullAuth = repoAuth]
        ELSE IF fail = "ExportImage"
        THEN [none EXCEPT !.err = "ExportImage",
                          !.calls = <<"ListImages">> \o pull \o <<"ExportImage">>,
                          !.tmpFile = TRUE, !.pullAuth = repoAuth]
        ELSE [err |-> IF fail = "Sync" THEN "Sync" ELSE "",
              calls |-> <<"ListImages">> \o pull \o <<"ExportImage">>,
              tmpFile |-> TRUE,
              bytes |-> content,
              pullAuth |-> repoAuth]

\* compressImageFile(tmpDir, fileName, dockerSafeTmpFileName): the temporary
\* .tgz file is created first and then filled with the gzip of the exported
\* file; bytes is its content.
compressImageFile(exported, fail) ==
    IF fail = "TempFileC"
    THEN [err |-> fail, tmpCompressedFile |-> FALSE, bytes |-> <<>>]
    ELSE IF fail \in CompressFailures
    THEN [err |-> fail, tmpCompressedFile |-> TRUE, bytes |-> <<>>]
    ELSE [err |-> "", tmpCompressedFile |-> TRUE, bytes |-> Gzip(exported)]

\* The stream writeDockerImage copies into hashWriter: the re-opened
\* temporary compressed file.
HashedBytes(exported, compressed) == compressed

\* Mutant of PartFileName: one name for every part file.
PartFileNameFixed(hash) == <<"part", 0, ".tgz">>

\* The final name of a part file in tmpDir: the hex digest plus the extension
\* of the temporary compressed file.
PartFileName(hash) == <<"part", hash, ".tgz">>

\* writeDockerImage(client, authConfigurations, tmpDir, image): err, the digest
\* held by the returned hashWriter, the file name, the compressed size, the
\* runtime calls made, and what the call did to tmpDir: the files it left
\* there (created), among them the renamed part file on success.  The deferred
\* os.Remove deletes the exported .tar once exportImageToFile has succeeded.
writeDockerImage(suffix, authConfigurations, image, listed, content, fail) ==
    LET ex == exportImageToFile(suffix, authConfigurations, image, listed, content, fail)
        co == compressImageFile(ex.bytes, fail)
        hash == Sha256(HashedBytes(ex.bytes, co.bytes))
        failed(e, calls, files) ==
            [err |-> e, hashWriter |-> -1, fileName |-> NoFile,
             compressedBytes |-> 0, calls |-> calls, created |-> files,
             content |-> <<>>, pullAuth |-> ex.pullAuth]
    IN  IF ex.err # ""
        THEN failed(ex.err, ex.calls,
                    IF ex.tmpFile THEN {<<"tar", suffix>>} ELSE {})
        ELSE IF co.err # ""
        THEN failed(co.err, ex.calls,
                    IF co.tmpCompressedFile THEN {<<"tgz", suffix>>} ELSE {})
        ELSE IF fail \in HashFailures
        THEN failed(fail, ex.calls, {<<"tgz", suffix>>})
        ELSE [err |-> "", hashWriter |-> hash, fileName |-> PartFileName(hash),
              compressedBytes |-> Len(co.bytes), calls |-> ex.calls,
              created |-> {PartFileName(hash)}, content |-> ex.bytes,
              pullAuth |-> ex.pullAuth]

(***************************************************************************)
(* State.                                                                  *)
(***************************************************************************)
VARIABLES
    images,              \* NewPkg's images argument
    npc,                 \* where NewPkg is
    spawned,             \* how many iterations of NewPkg's spawn loop have run
    waitGroup,           \* the counter of NewPkg's sync.WaitGroup
    wpc,                 \* where each worker (exportDockerImage) is
    wloc,                \* each worker's hashWriter, fileName, compressedBytes
    sending,             \* the DelegateError each blocked DelegateErr call sends
    cpc,                 \* where the consumer goroutine is
    cur,                 \* the DelegateError the consumer received last (e)
    DelegateErrorCount,  \* SynchronizedReporter.DelegateErrorCount
    delegateError,       \* createAction's delegateError: 0 for nil, else the exit code
    tmpDir,              \* "none", "temp" (under its temporary name), "perm", "removed"
    dirFiles,            \* the files in the build directory
    pkgParts,            \* the parts registered with pkgBuilder, in order, by registering worker
    serialized,          \* the manifest Build returned: the parts it lists
    pkgFile,             \* <outputDir>/<packageID>.json: "none", "truncated" or "written", and the parts it lists
    pkgSigFile,          \* <outputDir>/<packageID>.json.sig: "none", "truncated", "written"
    result,              \* what NewPkg returned; <<>> before it returns
    exported,            \* history: the bytes ExportImage wrote for each worker
    reported,            \* history: the DelegateErr calls each process has made
    returned,            \* history: how many DelegateErr calls have returned
    dones,               \* history: how many times each worker called group.Done
    errLines,            \* history: the lines NewPkg itself wrote to reporter.ErrWriter
    stdout,              \* the result line createAction wrote to reporter.OutWriter; <<>> if none
    exitError,           \* what createAction returned: -1 before it returns, 0 for nil, else the exit code
    handled,             \* history: the errors the handler was invoked with (and printed to stderr), in order
    fprintf,             \* PipeSpec: each goroutine's fmt.Fprintf to reporter.ErrWriter: where it is, its message, the bytes not yet read
    wrMu,                \* PipeSpec: the goroutine whose Write holds the pipe; 0 for none
    buf,                 \* PipeSpec: startPipeWatch's buf
    readN,               \* PipeSpec: startPipeWatch's readN
    watch,               \* PipeSpec: where startPipeWatch is: "Read" or "Write"
    dest,                \* PipeSpec: the bytes written to destWriter (os.Stderr), in order
    direct,              \* PipeSpec: whether the handler's own fmt.Fprintf(os.Stderr, ...) is still to come
    call,                \* WriteSpec: the arguments and environment of one writeDockerImage call
    ret                  \* WriteSpec: what that call returned and what the worker reports

vars == <<images, npc, spawned, waitGroup, wpc, wloc, sending, cpc, cur,
          DelegateErrorCount, delegateError, tmpDir, dirFiles, pkgParts,
          serialized, pkgFile, pkgSigFile, result, exported,
          reported, returned, dones, call, ret, errLines, stdout, exitError,
          handled, fprintf, wrMu, buf, readN, watch, dest, direct>>

pipeVars == <<fprintf, wrMu, buf, readN, watch, dest, direct>>

Procs == Workers \cup {Orchestrator}

NoManifest == {NoPart}
\* A file of the output directory that was never written, and what a failed
\* ioutil.WriteFile can leave behind: a created, incomplete file.
Absent == [state |-> "none", parts |-> {}]
Truncated == [state |-> "truncated", parts |-> {}]
Written(manifest) == [state |-> "written", parts |-> manifest]
NoLocals == [hashWriter |-> -1, fileName |-> NoFile, compressedBytes |-> 0]
EmptyTriple == <<"", "", "">>
CommittedTriple == <<"pkgID", "pkgID.json", "pkgID.json.sig">>

\* The image lists NewPkg is called with: createAction rejects an empty list.
ImageLists == UNION {[1..n -> ImageRefs] : n \in 1..MaxImages}

\* createAction has not returned yet.
NotReturned == -1
NoCall == [image |-> <<>>]
NoRet == [err |-> "not called"]

\* The goroutines that write to a stream of the reporter, one write call each.
PipeGoroutines == 1..MaxWriters

\* A byte at the destination is known by the write call it belongs to and its
\* place in that call's message.  buf starts zeroed (make([]byte, bufferLen));
\* the handler writes its message to os.Stderr itself, not through the pipe.
Message(w, n) == [i \in 1..n |-> [call |-> w, at |-> i]]
ZeroByte == [call |-> 0, at |-> 0]
Handlers == -1
DirectMessage == Message(Handlers, 1)

\* No goroutine writes to the reporter's stream.
PipeIdle ==
    /\ fprintf = [w \in PipeGoroutines |-> [pc |-> "returned", msg |-> <<>>, b |-> <<>>]]
    /\ wrMu = 0
    /\ buf = [i \in 1..bufferLen |-> ZeroByte]
    /\ readN = 0
    /\ watch = "Read"
    /\ dest = <<>>
    /\ direct = FALSE

\* The state NewPkg starts in, createAction having registered the consumer.
Start ==
    /\ npc = "ReadPrivateKey"
    /\ spawned = 0
    /\ waitGroup = 0
    /\ wpc = [w \in Workers |-> "unspawned"]
    /\ wloc = [w \in Workers |-> NoLocals]
    /\ sending = [p \in Procs |-> NoError]
    /\ cpc = "receive"
    /\ cur = NoError
    /\ DelegateErrorCount = 0
    /\ delegateError = 0
    /\ tmpDir = "none"
    /\ dirFiles = {}
    /\ pkgParts = [w \in Workers |-> <<>>]
    /\ serialized = NoManifest
    /\ pkgFile = Absent
    /\ pkgSigFile = "none"
    /\ result = <<>>
    /\ exported = [w \in Workers |-> <<>>]
    /\ reported = [p \in Procs |-> <<>>]
    /\ returned = 0
    /\ dones = [w \in Workers |-> 0]
    /\ errLines = {}
    /\ stdout = <<>>
    /\ exitError = NotReturned
    /\ handled = <<>>
    /\ ret = NoRet

Init ==
    /\ images \in ImageLists
    /\ call = NoCall
    /\ Start
    /\ PipeIdle

(***************************************************************************)
(* cmdtools.SynchronizedReporter                                           *)
(***************************************************************************)

\* The process has not exited: its goroutines run only until os.Exit.
Running == npc # "exited"

\* DelegateErr(userError, breaking, msg) called by process p: the send on
\* the unbuffered errChannel is pending until the consumer receives it.
DelegateError(userError, breaking, msg) ==
    [UserError |-> userError, Breaking |-> breaking, msg |-> msg]

DelegateErr(p, e) ==
    /\ sending' = [sending EXCEPT ![p] = e]
    /\ reported' = [reported EXCEPT ![p] = Append(@, e)]

\* Mutant of AfterDelegateErr: the worker's error paths return without
\* group.Done().
AfterDelegateErrWithoutDone(p) ==
    IF p = Orchestrator THEN "returnEmpty" ELSE "finished"

\* Where a process goes on when its DelegateErr call has returned: every
\* caller returns right after it; a worker's return runs its deferred
\* group.Done(), NewPkg's return gives back the empty triple.
AfterDelegateErr(p) == IF p = Orchestrator THEN "returnEmpty" ELSE "Done"

\* Mutant of Receive: the send completes whatever the consumer is doing, as
\* on a buffered channel.
ReceiveWhileHandling(p) ==
    /\ cpc # "unregistered"
    /\ Running
    /\ IF p = Orchestrator THEN npc = "DelegateErr" ELSE wpc[p] = "DelegateErr"
    /\ cur' = sending[p]
    /\ sending' = [sending EXCEPT ![p] = NoError]
    /\ cpc' = "count"
    /\ returned' = returned + 1
    /\ IF p = Orchestrator
       THEN npc' = AfterDelegateErr(p) /\ wpc' = wpc
       ELSE wpc' = [wpc EXCEPT ![p] = AfterDelegateErr(p)] /\ npc' = npc
    /\ UNCHANGED <<images, spawned, waitGroup, wloc,
                   DelegateErrorCount, delegateError, tmpDir, dirFiles,
                   pkgParts, serialized, pkgFile, pkgSigFile, result,
                   exported, reported, dones, call, ret,
                   errLines, stdout, exitError, handled, pipeVars>>

\* e := <-s.errChannel meets p's s.errChannel <- e: the send completes, so
\* p's DelegateErr call returns, and the consumer holds e.
Receive(p) ==
    /\ cpc = "receive"
    /\ Running
    /\ IF p = Orchestrator THEN npc = "DelegateErr" ELSE wpc[p] = "DelegateErr"
    /\ cur' = sending[p]
    /\ sending' = [sending EXCEPT ![p] = NoError]
    /\ cpc' = "count"
    /\ returned' = returned + 1
    /\ IF p = Orchestrator
       THEN npc' = AfterDelegateErr(p) /\ wpc' = wpc
       ELSE wpc' = [wpc EXCEPT ![p] = AfterDelegateErr(p)] /\ npc' = npc
    /\ UNCHANGED <<images, spawned, waitGroup, wloc,
                   DelegateErrorCount, delegateError, tmpDir, dirFiles,
                   pkgParts, serialized, pkgFile, pkgSigFile, result,
                   exported, reported, dones, call, ret,
                   errLines, stdout, exitError, handled, pipeVars>>

\* Mutant of Count: the handler is run for the first error only.
CountFirstOnly ==
    /\ cpc = "count"
    /\ Running
    /\ DelegateErrorCount' = DelegateErrorCount + 1
    /\ cpc' = IF DelegateErrorCount = 0 THEN "fn" ELSE "receive"
    /\ UNCHANGED <<images, npc, spawned, waitGroup, wpc, wloc, sending, cur,
                   delegateError, tmpDir, dirFiles, pkgParts, serialized,
                   pkgFile, pkgSigFile, result, exported,
                   reported, returned, dones, call, ret,
                   errLines, stdout, exitError, handled, pipeVars>>

\* s.DelegateErrorCount++ in the consumer goroutine.
Count ==
    /\ cpc = "count"
    /\ Running
    /\ DelegateErrorCount' = DelegateErrorCount + 1
    /\ cpc' = "fn"
    /\ UNCHANGED <<images, npc, spawned, waitGroup, wpc, wloc, sending, cur,
                   delegateError, tmpDir, dirFiles, pkgParts, serialized,
                   pkgFile, pkgSigFile, result, exported,
                   reported, returned, dones, call, ret,
                   errLines, stdout, exitError, handled, pipeVars>>

\* The exit code of the handler createAction registers.
ExitCode(e) == IF e.UserError THEN 2 ELSE 3

\* Mutant of Handler: the counter is cleared once the error is handled.
HandlerClearsCount ==
    /\ cpc = "fn"
    /\ Running
    /\ handled' = Append(handled, cur)
    /\ delegateError' = ExitCode(cur)
    /\ DelegateErrorCount' = 0
    /\ cur' = NoError
    /\ cpc' = "receive"
    /\ UNCHANGED <<images, npc, spawned, waitGroup, wpc, wloc, sending,
                   tmpDir, dirFiles, pkgParts, serialized,
                   pkgFile, pkgSigFile, result, exported,
                   reported, returned, dones, call, ret,
                   errLines, stdout, exitError, pipeVars>>

\* fn(e): the handler of createAction prints e to os.Stderr and sets
\* delegateError; the consumer then
\* loops back to the receive, and e, declared in the loop body, is gone.
Handler ==
    /\ cpc = "fn"
    /\ Running
    /\ handled' = Append(handled, cur)
    /\ delegateError' = ExitCode(cur)
    /\ cur' = NoError
    /\ cpc' = "receive"
    /\ UNCHANGED <<images, npc, spawned, waitGroup, wpc, wloc, sending,
                   DelegateErrorCount, tmpDir, dirFiles, pkgParts, serialized,
                   pkgFile, pkgSigFile, result, exported,
                   reported, returned, dones, call, ret,
                   errLines, stdout, exitError, pipeVars>>

(***************************************************************************)
(* create.exportDockerImage: the worker for images[w]                      *)
(***************************************************************************)

\* The part exportDockerImage hands to pkgBuilder.AddPart.
Part(w) ==
    [id |-> wloc[w].hashWriter,
     description |-> images[w],
     size |-> wloc[w].compressedBytes,
     fileName |-> wloc[w].fileName]

\* The errors exportDockerImage reports: DelegateErr(false, true, ...).
ErrorWritingImage(image) ==
    DelegateError(FALSE, TRUE, <<"Error writing docker image", image>>)
ErrorHashingImage(image) ==
    DelegateError(FALSE, TRUE, <<"Error hashing docker image", image>>)
ErrorAddingPart(sha256sum) ==
    DelegateError(FALSE, TRUE, <<"Error adding Pkg part", sha256sum>>)

\* A step of worker w failed: reporter.DelegateErr(...), then return.
WorkerFails(w, e) ==
    /\ DelegateErr(w, e)
    /\ wpc' = [wpc EXCEPT ![w] = "DelegateErr"]

\* hashWriter, fileName, _, compressedBytes, err := writeDockerImage(...);
\* authConfigurations is nil, as createAction passes it when the option
\* readauthconfig is not set.
WriteDockerImage(w) ==
    /\ wpc[w] = "writeDockerImage"
    /\ \E listed \in SUBSET {images[w]}, content \in Contents, fail \in FailPoints :
         \E r \in {writeDockerImage(w, NilAuthConfigurations, images[w], listed,
                                       content, fail)} :
             /\ dirFiles' = dirFiles \cup r.created
             /\ exported' = [exported EXCEPT ![w] = r.content]
             /\ IF r.err # ""
                THEN /\ WorkerFails(w, ErrorWritingImage(images[w]))
                     /\ wloc' = wloc
                ELSE /\ wloc' = [wloc EXCEPT ![w] =
                                    [hashWriter |-> r.hashWriter,
                                     fileName |-> r.fileName,
                                     compressedBytes |-> r.compressedBytes]]
                     /\ wpc' = [wpc EXCEPT ![w] = "Sha256HashOfInput"]
                     /\ UNCHANGED <<sending, reported>>
    /\ UNCHANGED <<images, npc, spawned, waitGroup, cpc, cur,
                   DelegateErrorCount, delegateError, tmpDir, pkgParts,
                   serialized, pkgFile, pkgSigFile, result, returned, dones, call, ret,
                   errLines, stdout, exitError, handled, pipeVars>>

\* Mutant of SignHash: the worker gives up once an error has been counted.
SignHashUnlessCounted(w) ==
    /\ wpc[w] = "Sha256HashOfInput"
    /\ DelegateErrorCount = 0
    /\ \/ wpc' = [wpc EXCEPT ![w] = "AddPart"] /\ UNCHANGED <<sending, reported>>
       \/ WorkerFails(w, ErrorHashingImage(images[w]))
    /\ UNCHANGED <<images, npc, spawned, waitGroup, wloc, cpc, cur,
                   DelegateErrorCount, delegateError, tmpDir, dirFiles,
                   pkgParts, serialized, pkgFile, pkgSigFile, result,
                   exported, returned, dones, call, ret,
                   errLines, stdout, exitError, handled, pipeVars>>

\* signature, err := sign.Sha256HashOfInput(privateKey, hashWriter)
SignHash(w) ==
    /\ wpc[w] = "Sha256HashOfInput"
    /\ \/ wpc' = [wpc EXCEPT ![w] = "AddPart"] /\ UNCHANGED <<sending, reported>>
       \/ WorkerFails(w, ErrorHashingImage(images[w]))
    /\ UNCHANGED <<images, npc, spawned, waitGroup, wloc, cpc, cur,
                   DelegateErrorCount, delegateError, tmpDir, dirFiles,
                   pkgParts, serialized, pkgFile, pkgSigFile, result,
                   exported, returned, dones, call, ret,
                   errLines, stdout, exitError, handled, pipeVars>>

\* Mutant of AddPart: the part stays registered when the error is reported.
AddPartKeptOnError(w) ==
    /\ wpc[w] = "AddPart"
    /\ pkgParts' = [pkgParts EXCEPT ![w] = Append(@, Part(w))]
    /\ \/ wpc' = [wpc EXCEPT ![w] = "Done"] /\ UNCHANGED <<sending, reported>>
       \/ WorkerFails(w, ErrorAddingPart(wloc[w].hashWriter))
    /\ UNCHANGED <<images, npc, spawned, waitGroup, wloc, cpc, cur,
                   DelegateErrorCount, delegateError, tmpDir, dirFiles,
                   serialized, pkgFile, pkgSigFile, result,
                   exported, returned, dones, call, ret,
                   errLines, stdout, exitError, handled, pipeVars>>

\* _, err = pkgBuilder.AddPart(sha256sum, sha256sum, image, signatures,
\* compressedBytes, source): the builder registers the part or returns an error.
AddPart(w) ==
    /\ wpc[w] = "AddPart"
    /\ \/ /\ pkgParts' = [pkgParts EXCEPT ![w] = Append(@, Part(w))]
          /\ wpc' = [wpc EXCEPT ![w] = "Done"]
          /\ UNCHANGED <<sending, reported>>
       \/ /\ WorkerFails(w, ErrorAddingPart(wloc[w].hashWriter))
          /\ pkgParts' = pkgParts
    /\ UNCHANGED <<images, npc, spawned, waitGroup, wloc, cpc, cur,
                   DelegateErrorCount, delegateError, tmpDir, dirFiles,
                   serialized, pkgFile, pkgSigFile, result, 
                   exported, returned, dones, call, ret,
                   errLines, stdout, exitError, handled, pipeVars>>

\* defer group.Done(): runs when exportDockerImage returns.
Done(w) ==
    /\ wpc[w] = "Done"
    /\ waitGroup' = waitGroup - 1
    /\ dones' = [dones EXCEPT ![w] = @ + 1]
    /\ wpc' = [wpc EXCEPT ![w] = "finished"]
    /\ UNCHANGED <<images, npc, spawned, wloc, sending, cpc, cur,
                   DelegateErrorCount, delegateError, tmpDir, dirFiles,
                   pkgParts, serialized, pkgFile, pkgSigFile, result,
                   exported, reported, returned, call, ret,
                   errLines, stdout, exitError, handled, pipeVars>>

(***************************************************************************)
(* create.NewPkg: the orchestrator                                         *)
(***************************************************************************)

workerVars == <<wpc, wloc, exported, dones, call, ret>>
consumerVars == <<cpc, cur, DelegateErrorCount, delegateError, returned, handled>>
createActionVars == <<stdout, exitError>>

\* fmt.Fprintf(reporter.ErrWriter, ...) in NewPkg.
Logs(line) == errLines' = errLines \cup {line}

\* The line NewPkg writes when it finds DelegateErrorCount > 0.
SummaryLine == "All parts not processed successfully, discontinuing operations"

\* A step of NewPkg failed: DelegateErr(userError, true, msg), then
\* return "", "", "".
NewPkgFails(userError, msg) ==
    /\ DelegateErr(Orchestrator, DelegateError(userError, TRUE, <<msg>>))
    /\ npc' = "DelegateErr"

NewPkgGoes(next) ==
    /\ npc' = next
    /\ UNCHANGED <<sending, reported>>

\* pK, err := sign.ReadPrivateKey(privateKey)
ReadPrivateKey ==
    /\ npc = "ReadPrivateKey"
    /\ \/ NewPkgGoes("NewDockerImagePkgBuilder")
       \/ NewPkgFails(TRUE, "Error reading RSA PSS private key")
    /\ UNCHANGED <<errLines, images, spawned, waitGroup, tmpDir, dirFiles, pkgParts,
                   serialized, pkgFile, pkgSigFile, result>>
    /\ UNCHANGED <<workerVars, consumerVars, createActionVars, pipeVars>>

\* pkgBuilder, err := horizonpkg.NewDockerImagePkgBuilder(FILE, author, images)
NewDockerImagePkgBuilder ==
    /\ npc = "NewDockerImagePkgBuilder"
    /\ \/ NewPkgGoes("TempDir")
       \/ NewPkgFails(FALSE, "Error setting up Pkg builder")
    /\ UNCHANGED <<errLines, images, spawned, waitGroup, tmpDir, dirFiles, pkgParts,
                   serialized, pkgFile, pkgSigFile, result>>
    /\ UNCHANGED <<workerVars, consumerVars, createActionVars, pipeVars>>

\* Mutant of TempDir: the directory exists although the error is reported.
TempDirLeftOnError ==
    /\ npc = "TempDir"
    /\ tmpDir' = "temp"
    /\ \/ /\ NewPkgGoes("spawn")
          /\ Logs("Created temporary directory for packaging")
       \/ /\ NewPkgFails(FALSE, "Error setting up Pkg builder")
          /\ UNCHANGED errLines
    /\ UNCHANGED <<images, spawned, waitGroup, dirFiles, pkgParts,
                   serialized, pkgFile, pkgSigFile, result>>
    /\ UNCHANGED <<workerVars, consumerVars, createActionVars, pipeVars>>

\* tmpDir, err := ioutil.TempDir(baseOutputDir, ...); defer os.RemoveAll(tmpDir)
TempDir ==
    /\ npc = "TempDir"
    /\ \/ /\ NewPkgGoes("spawn")
          /\ tmpDir' = "temp"
          /\ Logs("Created temporary directory for packaging")
       \/ /\ NewPkgFails(FALSE, "Error setting up Pkg builder")
          /\ UNCHANGED <<tmpDir, errLines>>
    /\ UNCHANGED <<images, spawned, waitGroup, dirFiles, pkgParts,
                   serialized, pkgFile, pkgSigFile, result>>
    /\ UNCHANGED <<workerVars, consumerVars, createActionVars, pipeVars>>

\* One iteration of the loop over images: waitGroup.Add(1), then
\* go exportDockerImage(...) for the next image.
Spawn ==
    /\ npc = "spawn"
    /\ spawned < Len(images)
    /\ waitGroup' = waitGroup + 1
    /\ wpc' = [wpc EXCEPT ![spawned + 1] = "writeDockerImage"]
    /\ spawned' = spawned + 1
    /\ npc' = IF spawned + 1 = Len(images) THEN "Wait" ELSE "spawn"
    /\ UNCHANGED <<images, wloc, sending, tmpDir, dirFiles, pkgParts,
                   serialized, pkgFile, pkgSigFile, result, 
                   exported, reported, dones, call, ret,
                   errLines, stdout, exitError, handled, pipeVars>>
    /\ UNCHANGED <<consumerVars, createActionVars, errLines, pipeVars>>

\* Mutant of WaitReturns: Wait does not wait.
WaitReturnsAtOnce == TRUE

\* waitGroup.Wait() returns when the counter is zero.
WaitReturns == waitGroup = 0

Wait ==
    /\ npc = "Wait"
    /\ WaitReturns
    /\ npc' = "readCount"
    /\ UNCHANGED <<errLines, images, spawned, waitGroup, sending, tmpDir, dirFiles,
                   pkgParts, serialized, pkgFile, pkgSigFile, result, reported>>
    /\ UNCHANGED <<workerVars, consumerVars, createActionVars, pipeVars>>

\* Mutant of ReadCount: the abort after the join writes no line.
ReadCountSilent ==
    /\ npc = "readCount"
    /\ npc' = IF DelegateErrorCount > 0 THEN "returnEmpty" ELSE "Build"
    /\ UNCHANGED <<errLines, images, spawned, waitGroup, sending, tmpDir, dirFiles,
                   pkgParts, serialized, pkgFile, pkgSigFile, result, reported>>
    /\ UNCHANGED <<workerVars, consumerVars, createActionVars, pipeVars>>

\* if reporter.DelegateErrorCount > 0 { ...; return "", "", "" }
ReadCount ==
    /\ npc = "readCount"
    /\ IF DelegateErrorCount > 0
       THEN npc' = "returnEmpty" /\ Logs(SummaryLine)
       ELSE npc' = "Build" /\ errLines' = errLines
    /\ UNCHANGED <<images, spawned, waitGroup, sending, tmpDir, dirFiles,
                   pkgParts, serialized, pkgFile, pkgSigFile, result, reported>>
    /\ UNCHANGED <<workerVars, consumerVars, createActionVars, pipeVars>>

\* The parts the builder holds: what Build serializes.
RegisteredParts ==
    UNION {{pkgParts[w][i] : i \in 1..Len(pkgParts[w])} : w \in Workers}

\* Mutant of Build: NewPkg goes on to the manifest write after reporting the
\* error of Build.
BuildGoesOnAfterError ==
    /\ npc = "Build"
    /\ \/ NewPkgGoes("WriteFile") /\ serialized' = RegisteredParts
       \/ /\ DelegateErr(Orchestrator,
                         DelegateError(FALSE, TRUE, <<"Error building package">>))
          /\ npc' = "WriteFile"
          /\ serialized' = serialized
    /\ UNCHANGED <<errLines, images, spawned, waitGroup, tmpDir, dirFiles, pkgParts,
                   pkgFile, pkgSigFile, result>>
    /\ UNCHANGED <<workerVars, consumerVars, createActionVars, pipeVars>>

\* _, serialized, err := pkgBuilder.Build()
Build ==
    /\ npc = "Build"
    /\ \/ NewPkgGoes("WriteFile") /\ serialized' = RegisteredParts
       \/ NewPkgFails(FALSE, "Error building package") /\ serialized' = serialized
    /\ UNCHANGED <<errLines, images, spawned, waitGroup, tmpDir, dirFiles, pkgParts,
                   pkgFile, pkgSigFile, result>>
    /\ UNCHANGED <<workerVars, consumerVars, createActionVars, pipeVars>>

\* Mutant of WritePkgFile: the error of the manifest write is not checked.
WritePkgFileUnchecked ==
    /\ npc = "WriteFile"
    /\ NewPkgGoes("Input")
    /\ pkgFile' \in {Written(serialized), Absent, Truncated}
    /\ Logs("Wrote pkg metadata file")
    /\ UNCHANGED <<images, spawned, waitGroup, tmpDir, dirFiles, pkgParts,
                   serialized, pkgSigFile, result>>
    /\ UNCHANGED <<workerVars, consumerVars, createActionVars, pipeVars>>

\* err = ioutil.WriteFile(pkgFile, serialized, 0644)
WritePkgFile ==
    /\ npc = "WriteFile"
    /\ \/ /\ NewPkgGoes("Input")
          /\ pkgFile' = Written(serialized)
          /\ Logs("Wrote pkg metadata file")
       \/ /\ NewPkgFails(FALSE, "Error writing Pkg metadata to disk")
          /\ pkgFile' \in {Absent, Truncated}
          /\ errLines' = errLines
    /\ UNCHANGED <<images, spawned, waitGroup, tmpDir, dirFiles, pkgParts,
                   serialized, pkgSigFile, result>>
    /\ UNCHANGED <<workerVars, consumerVars, createActionVars, pipeVars>>

\* pkgSig, err := sign.Input(privateKey, serialized)
SignInput ==
    /\ npc = "Input"
    /\ \/ NewPkgGoes("WriteSigFile")
       \/ NewPkgFails(FALSE, "Error signing Pkg metadata")
    /\ UNCHANGED <<errLines, images, spawned, waitGroup, tmpDir, dirFiles, pkgParts,
                   serialized, pkgFile, pkgSigFile, result>>
    /\ UNCHANGED <<workerVars, consumerVars, createActionVars, pipeVars>>

\* Where NewPkg goes on after writing the signature file, by the error
\* ioutil.WriteFile returned (ok is err == nil): err is assigned and never
\* read.
AfterWriteSigFile(ok) == "Chmod"

\* err = ioutil.WriteFile(pkgSigFile, []byte(pkgSig), 0644)
WriteSigFile ==
    /\ npc = "WriteSigFile"
    /\ \/ pkgSigFile' = "written" /\ NewPkgGoes(AfterWriteSigFile(TRUE))
       \/ /\ pkgSigFile' \in {"none", "truncated"}
          /\ NewPkgGoes(AfterWriteSigFile(FALSE))
    /\ Logs("Signed pkg metadata file and wrote signature to file")
    /\ UNCHANGED <<images, spawned, waitGroup, tmpDir, dirFiles, pkgParts,
                   serialized, pkgFile, result>>
    /\ UNCHANGED <<workerVars, consumerVars, createActionVars, pipeVars>>

\* os.Chmod(tmpDir, 0755)
Chmod ==
    /\ npc = "Chmod"
    /\ \/ NewPkgGoes("Rename")
       \/ NewPkgFails(FALSE, "Error changing perms on tmpdir")
    /\ UNCHANGED <<errLines, images, spawned, waitGroup, tmpDir, dirFiles, pkgParts,
                   serialized, pkgFile, pkgSigFile, result>>
    /\ UNCHANGED <<workerVars, consumerVars, createActionVars, pipeVars>>

\* Mutant of Rename: the error is reported although the directory was moved.
RenameMovedOnError ==
    /\ npc = "Rename"
    /\ tmpDir' = "perm"
    /\ \/ NewPkgGoes("returnSuccess")
       \/ NewPkgFails(FALSE, "Error moving Pkg content to permanent dir from tmpdir")
    /\ UNCHANGED <<errLines, images, spawned, waitGroup, dirFiles, pkgParts,
                   serialized, pkgFile, pkgSigFile, result>>
    /\ UNCHANGED <<workerVars, consumerVars, createActionVars, pipeVars>>

\* os.Rename(tmpDir, permDir): the directory and every file in it change
\* name at once.
Rename ==
    /\ npc = "Rename"
    /\ \/ NewPkgGoes("returnSuccess") /\ tmpDir' = "perm"
       \/ /\ NewPkgFails(FALSE, "Error moving Pkg content to permanent dir from tmpdir")
          /\ tmpDir' = tmpDir
    /\ UNCHANGED <<errLines, images, spawned, waitGroup, dirFiles, pkgParts,
                   serialized, pkgFile, pkgSigFile, result>>
    /\ UNCHANGED <<workerVars, consumerVars, createActionVars, pipeVars>>

\* Mutant of RemoveAll: the build directory is removed under either name.
RemoveAllEitherName ==
    IF tmpDir \in {"temp", "perm"}
    THEN tmpDir' = "removed" /\ dirFiles' = {}
    ELSE UNCHANGED <<tmpDir, dirFiles>>

\* The deferred os.RemoveAll(tmpDir): it removes the directory of that
\* (temporary) name, if there is one.
RemoveAll ==
    IF tmpDir = "temp"
    THEN tmpDir' = "removed" /\ dirFiles' = {}
    ELSE UNCHANGED <<tmpDir, dirFiles>>

\* return "", "", "" (after the deferred call, if it was registered)
ReturnEmpty ==
    /\ npc = "returnEmpty"
    /\ RemoveAll
    /\ result' = EmptyTriple
    /\ npc' = "done"
    /\ UNCHANGED <<errLines, images, spawned, waitGroup, sending, pkgParts,
                   serialized, pkgFile, pkgSigFile, reported>>
    /\ UNCHANGED <<workerVars, consumerVars, createActionVars, pipeVars>>

\* return permDir, pkgFile, pkgSigFile
ReturnSuccess ==
    /\ npc = "returnSuccess"
    /\ RemoveAll
    /\ result' = CommittedTriple
    /\ npc' = "done"
    /\ UNCHANGED <<errLines, images, spawned, waitGroup, sending, pkgParts,
                   serialized, pkgFile, pkgSigFile, reported>>
    /\ UNCHANGED <<workerVars, consumerVars, createActionVars, pipeVars>>

(***************************************************************************)
(* main.createAction after create.NewPkg has returned, and main            *)
(***************************************************************************)

\* if delegateError == nil { ...; fmt.Fprintf(reporter.OutWriter,
\* "%v %v %v\n", permDir, pkgFile, pkgSigFile) }
PrintResult ==
    /\ npc = "done"
    /\ stdout' = IF delegateError = 0 THEN result ELSE stdout
    /\ npc' = "return"
    /\ UNCHANGED <<images, spawned, waitGroup, sending, tmpDir, dirFiles,
                   pkgParts, serialized, pkgFile, pkgSigFile, result, reported,
                   errLines, exitError>>
    /\ UNCHANGED <<workerVars, consumerVars, pipeVars>>

\* return delegateError
ReturnDelegateError ==
    /\ npc = "return"
    /\ exitError' = delegateError
    /\ npc' = "returned"
    /\ UNCHANGED <<images, spawned, waitGroup, sending, tmpDir, dirFiles,
                   pkgParts, serialized, pkgFile, pkgSigFile, result, reported,
                   errLines, stdout>>
    /\ UNCHANGED <<workerVars, consumerVars, pipeVars>>

\* app.Run hands the returned error to the exit handler of the cli package,
\* which exits with its code; with nil, main prints "Exiting." and calls
\* os.Exit(0).  Either way every goroutine stops.
Exit ==
    /\ npc = "returned"
    /\ npc' = "exited"
    /\ UNCHANGED <<images, spawned, waitGroup, sending, tmpDir, dirFiles,
                   pkgParts, serialized, pkgFile, pkgSigFile, result, reported,
                   errLines>>
    /\ UNCHANGED <<workerVars, consumerVars, createActionVars, pipeVars>>

(***************************************************************************)
(* The specification                                                       *)
(***************************************************************************)
createAction == PrintResult \/ ReturnDelegateError

main == Exit

NewPkg ==
    \/ ReadPrivateKey \/ NewDockerImagePkgBuilder \/ TempDir \/ Spawn \/ Wait
    \/ ReadCount \/ Build \/ WritePkgFile \/ SignInput \/ WriteSigFile
    \/ Chmod \/ Rename \/ ReturnEmpty \/ ReturnSuccess

exportDockerImage(w) ==
    WriteDockerImage(w) \/ SignHash(w) \/ AddPart(w) \/ Done(w)

DelegateErrorConsumer ==
    (\E p \in Procs : Receive(p)) \/ Count \/ Handler

Next ==
    \/ NewPkg
    \/ createAction
    \/ main
    \/ \E w \in Workers : exportDockerImage(w)
    \/ DelegateErrorConsumer

Spec == Init /\ [][Next]_vars

(***************************************************************************)
(* One call of writeDockerImage with its error report, on its own: the     *)
(* worker for a one-image list, with the environment of the call (what     *)
(* ListImages returns, what ExportImage writes, which call fails) drawn    *)
(* in the initial state.                                                   *)
(***************************************************************************)
WriteCalls ==
    [image : CallImages, listed : SUBSET CallImages, content : Contents,
     fail : FailPoints, skipPull : BOOLEAN, auth : AuthConfigurationSets]

WriteInit ==
    /\ call \in WriteCalls
    /\ images = <<call.image>>
    /\ Start
    /\ PipeIdle

\* exportDockerImage up to its first return: the call of writeDockerImage
\* and, when err != nil, the DelegateError handed to reporter.DelegateErr;
\* and what the exportImageToFile with the skip-pull option does in the same
\* environment.
CallWriteDockerImage ==
    /\ call # NoCall
    /\ ret = NoRet
    /\ LET r == writeDockerImage(1, call.auth, call.image, call.listed,
                                 call.content, call.fail)
           x == exportImageToFileSkipPull(1, call.skipPull, call.auth, call.image,
                                          call.listed, call.content, call.fail)
       IN  ret' = [err |-> r.err, hashWriter |-> r.hashWriter,
                   calls |-> r.calls, content |-> r.content,
                   pullAuth |-> r.pullAuth,
                   report |-> IF r.err # "" THEN ErrorWritingImage(call.image)
                                            ELSE NoError,
                   skipPull |-> [err |-> x.err, calls |-> x.calls]]
    /\ UNCHANGED <<images, npc, spawned, waitGroup, wpc, wloc, sending, cpc,
                   cur, DelegateErrorCount, delegateError, tmpDir, dirFiles,
                   pkgParts, serialized, pkgFile, pkgSigFile, result,
                   exported, reported, returned, dones, call,
                   errLines, stdout, exitError, handled, pipeVars>>

WriteSpec == WriteInit /\ [][CallWriteDockerImage]_vars

(***************************************************************************)
(* One stream of the reporter on its own: goroutines that each write one   *)
(* message to reporter.ErrWriter with fmt.Fprintf, the pipe, and the       *)
(* startPipeWatch goroutine that copies the pipe to os.Stderr, to which    *)
(* the handler of createAction also writes, directly.  A Write to an       *)
(* io.PipeWriter holds the pipe until Reads have consumed all of its       *)
(* bytes; a Read takes as many bytes of the current Write as fit buf.      *)
(***************************************************************************)
mainVars == <<images, npc, spawned, waitGroup, wpc, wloc, sending, cpc, cur,
              DelegateErrorCount, delegateError, tmpDir, dirFiles, pkgParts,
              serialized, pkgFile, pkgSigFile, result, exported, reported,
              returned, dones, call, ret, errLines, stdout, exitError, handled>>

PipeInit ==
    /\ images = <<>>
    /\ call = NoCall
    /\ Start
    /\ fprintf \in [PipeGoroutines ->
                       {[pc |-> "Fprintf", msg |-> m, b |-> m] :
                            m \in UNION {{Message(w, n) : n \in 1..MaxMsgLen} :
                                             w \in PipeGoroutines}}]
    /\ \A w \in PipeGoroutines : fprintf[w].msg[1].call = w
    /\ wrMu = 0
    /\ buf = [i \in 1..bufferLen |-> ZeroByte]
    /\ readN = 0
    /\ watch = "Read"
    /\ dest = <<>>
    /\ direct = TRUE

\* fmt.Fprintf(reporter.ErrWriter, ...) calls ErrWriter.Write once with the
\* formatted message; the Write starts when no other Write holds the pipe.
PipeWriterWrite(w) ==
    /\ fprintf[w].pc = "Fprintf"
    /\ wrMu = 0
    /\ wrMu' = w
    /\ fprintf' = [fprintf EXCEPT ![w].pc = "Write"]
    /\ UNCHANGED <<mainVars, buf, readN, watch, dest, direct>>

\* The Write returns when all its bytes have been read.
PipeWriterReturn(w) ==
    /\ fprintf[w].pc = "Write"
    /\ wrMu = w
    /\ fprintf[w].b = <<>>
    /\ wrMu' = 0
    /\ fprintf' = [fprintf EXCEPT ![w].pc = "returned"]
    /\ UNCHANGED <<mainVars, buf, readN, watch, dest, direct>>

Min(a, b) == IF a <= b THEN a ELSE b

\* readN, err := pipeReader.Read(buf): blocks until a Write offers bytes and
\* copies as many as fit into the front of buf.  (The lock startPipeWatch
\* takes around it is its own, shared with no one.)
PipeReaderRead ==
    /\ watch = "Read"
    /\ wrMu # 0
    /\ fprintf[wrMu].pc = "Write"
    /\ fprintf[wrMu].b # <<>>
    /\ LET b == fprintf[wrMu].b
           n == Min(Len(buf), Len(b))
       IN  /\ buf' = [i \in 1..Len(buf) |-> IF i <= n THEN b[i] ELSE buf[i]]
           /\ readN' = n
           /\ fprintf' = [fprintf EXCEPT ![wrMu].b = SubSeq(b, n + 1, Len(b))]
    /\ watch' = "Write"
    /\ UNCHANGED <<mainVars, wrMu, dest, direct>>

\* Mutant of WrittenBytes: the whole buffer is written.
WrittenBytesWholeBuffer(buffer, n) == buffer

\* buf[0:readN]
WrittenBytes(buffer, n) == SubSeq(buffer, 1, n)

\* Mutant of DestWriterWrite: startPipeWatch leaves its loop after the write.
DestWriterWriteAndStop ==
    /\ watch = "Write"
    /\ dest' = dest \o WrittenBytes(buf, readN)
    /\ watch' = "stopped"
    /\ UNCHANGED <<mainVars, fprintf, wrMu, buf, readN, direct>>

\* destWriter.Write(buf[0:readN]), then the sleep and the next Read.
DestWriterWrite ==
    /\ watch = "Write"
    /\ dest' = dest \o WrittenBytes(buf, readN)
    /\ watch' = "Read"
    /\ UNCHANGED <<mainVars, fprintf, wrMu, buf, readN, direct>>

\* fmt.Fprintf(os.Stderr, ...) in the handler of createAction: one write to
\* the destination that does not pass through the pipe.
HandlerFprintf ==
    /\ direct
    /\ dest' = dest \o DirectMessage
    /\ direct' = FALSE
    /\ UNCHANGED <<mainVars, fprintf, wrMu, buf, readN, watch>>

startPipeWatch == PipeReaderRead \/ DestWriterWrite

PipeNext ==
    \/ \E w \in PipeGoroutines : PipeWriterWrite(w) \/ PipeWriterReturn(w)
    \/ startPipeWatch
    \/ HandlerFprintf

PipeSpec == PipeInit /\ [][PipeNext]_vars

(***************************************************************************)
(* The reporter on its own: goroutines that each call DelegateErr once on  *)
(* a SynchronizedReporter whose consumer is registered at some time, or    *)
(* never.  errChannel is unbuffered (make(chan DelegateError)), so a send  *)
(* completes only in a receive.                                            *)
(***************************************************************************)

\* The errors the callers report: NewPkg's user error and a worker's error.
CallerErrors ==
    {DelegateError(TRUE, TRUE, <<"Error reading RSA PSS private key">>),
     ErrorWritingImage(TaggedImage)}

\* The state of a process in which nothing has been reported or built, with
\* the orchestrating goroutine at n, every other goroutine at w and the
\* consumer goroutine at c ("unregistered" while there is none).
Fresh(n, w, c) ==
    /\ ret = NoRet
    /\ npc = n
    /\ wpc = [v \in Workers |-> w]
    /\ cpc = c
    /\ spawned = 0
    /\ waitGroup = 0
    /\ wloc = [v \in Workers |-> NoLocals]
    /\ sending = [p \in Procs |-> NoError]
    /\ cur = NoError
    /\ DelegateErrorCount = 0
    /\ delegateError = 0
    /\ tmpDir = "none"
    /\ dirFiles = {}
    /\ pkgParts = [v \in Workers |-> <<>>]
    /\ serialized = NoManifest
    /\ pkgFile = Absent
    /\ pkgSigFile = "none"
    /\ result = <<>>
    /\ exported = [v \in Workers |-> <<>>]
    /\ reported = [p \in Procs |-> <<>>]
    /\ returned = 0
    /\ dones = [v \in Workers |-> 0]
    /\ errLines = {}
    /\ stdout = <<>>
    /\ exitError = NotReturned
    /\ handled = <<>>

\* A reporter fresh from NewSynchronizedReporter: no consumer goroutine yet,
\* every caller ahead of its DelegateErr call.
ReporterInit ==
    /\ images = <<>>
    /\ call = NoCall
    /\ Fresh("call", "call", "unregistered")
    /\ PipeIdle

\* s.DelegateErrorConsumer(fn): go func() { for { ... } }() starts the
\* consumer goroutine.
RegisterConsumer ==
    /\ cpc = "unregistered"
    /\ cpc' = "receive"
    /\ UNCHANGED <<images, npc, spawned, waitGroup, wpc, wloc, sending, cur,
                   DelegateErrorCount, delegateError, tmpDir, dirFiles,
                   pkgParts, serialized, pkgFile, pkgSigFile, result, exported,
                   reported, returned, dones, call, ret, errLines, stdout,
                   exitError, handled, pipeVars>>

\* Caller p calls s.DelegateErr(userError, breaking, msg): the send begins.
CallDelegateErr(p) ==
    /\ IF p = Orchestrator THEN npc = "call" ELSE wpc[p] = "call"
    /\ \E e \in CallerErrors : DelegateErr(p, e)
    /\ IF p = Orchestrator
       THEN npc' = "DelegateErr" /\ wpc' = wpc
       ELSE wpc' = [wpc EXCEPT ![p] = "DelegateErr"] /\ npc' = npc
    /\ UNCHANGED <<images, spawned, waitGroup, wloc, cpc, cur,
                   DelegateErrorCount, delegateError, tmpDir, dirFiles,
                   pkgParts, serialized, pkgFile, pkgSigFile, result, exported,
                   returned, dones, call, ret, errLines, stdout,
                   exitError, handled, pipeVars>>

ReporterNext ==
    \/ RegisterConsumer
    \/ \E p \in Procs : CallDelegateErr(p)
    \/ DelegateErrorConsumer

ReporterSpec == ReporterInit /\ [][ReporterNext]_vars

(***************************************************************************)
(* main.createAction up to its call of create.NewPkg: the checks of the    *)
(* command line options, in the order of the code.  An option is "" when   *)
(* it was not given; a path option is named by what os.Stat finds there.   *)
(***************************************************************************)
PathOptions == {"", "absent", "dir", "file"}
Contexts ==
    [outputdir : PathOptions, privatekey : PathOptions,
     dockerendpoint : {"", "unreachable", "ok"}, author : {"", "me"},
     parturlbase : {"", "unparsable", "http://u"},
     readauthconfig : {"unset", "unreadable", "read"}]

\* Mutant of checkAccess: only os.Stat is checked, not the mode.
checkAccessStatOnly(ty, target) == IF target = "absent" THEN 2 ELSE 0

\* checkAccess(ty, target): 0 for nil, else the code of the exit error.
checkAccess(ty, target) ==
    IF target = "absent" THEN 2
    ELSE IF ty = "WRITEDIR" THEN (IF target # "dir" THEN 2 ELSE 0)
    ELSE IF ty = "EXISTINGFILE" THEN (IF target # "file" THEN 2 ELSE 0)
    ELSE 1

\* The code of the exit error of the first check of createAction that fails;
\* 0 when all pass.
createActionChecks(ctx, dockerimage) ==
    IF ctx.outputdir = "" THEN 2
    ELSE IF checkAccess("WRITEDIR", ctx.outputdir) # 0 THEN 2
    ELSE IF ctx.privatekey = "" THEN 2
    ELSE IF checkAccess("EXISTINGFILE", ctx.privatekey) # 0 THEN 2
    ELSE IF ctx.dockerendpoint # "ok" THEN 2
    ELSE IF Len(dockerimage) = 0 THEN 2
    ELSE IF ctx.author = "" THEN 2
    ELSE IF ctx.parturlbase = "" THEN 2
    ELSE IF ctx.parturlbase = "unparsable" THEN 2
    ELSE IF ctx.readauthconfig = "unreadable" THEN 2
    ELSE 0

ValidateInit ==
    /\ call \in Contexts
    /\ images \in ImageLists \cup {<<>>}
    /\ Fresh("createAction", "unspawned", "unregistered")
    /\ PipeIdle

\* createAction from its entry to the call of create.NewPkg: it returns the
\* exit error of a failed check, or registers the error consumer and calls
\* NewPkg.
ValidateInputs ==
    /\ npc = "createAction"
    /\ \E code \in {createActionChecks(call, images)} :
          IF code # 0
          THEN /\ exitError' = code
               /\ npc' = "returned"
               /\ cpc' = cpc
          ELSE /\ exitError' = exitError
               /\ npc' = "ReadPrivateKey"
               /\ cpc' = "receive"
    /\ UNCHANGED <<images, spawned, waitGroup, wpc, wloc, sending, cur,
                   DelegateErrorCount, delegateError, tmpDir, dirFiles,
                   pkgParts, serialized, pkgFile, pkgSigFile, result, exported,
                   reported, returned, dones, call, ret, errLines, stdout,
                   handled, pipeVars>>

ValidateSpec == ValidateInit /\ [][ValidateInputs \/ main]_vars

(***************************************************************************)
(* The build with its first diagnostic line: every worker begins with      *)
(* fmt.Fprintf(reporter.ErrWriter, "... Beginning processing Docker        *)
(* image"), a Write to the pipe that returns only when startPipeWatch has  *)
(* read all of it, and goes on to writeDockerImage after that.  The        *)
(* goroutines are scheduled fairly: a goroutine that can take a step is    *)
(* not passed over forever.                                                *)
(***************************************************************************)

\* The write worker w makes first, pending from the start of the goroutine;
\* the message is longer than startPipeWatch's buffer.
BeginningProcessing(w) ==
    [pc |-> "Fprintf", msg |-> Message(w, MaxMsgLen), b |-> Message(w, MaxMsgLen)]

LiveInit ==
    /\ images \in ImageLists
    /\ call = NoCall
    /\ Start
    /\ fprintf = [w \in PipeGoroutines |->
                     IF w <= Len(images) THEN BeginningProcessing(w)
                     ELSE [pc |-> "returned", msg |-> <<>>, b |-> <<>>]]
    /\ wrMu = 0
    /\ buf = [i \in 1..bufferLen |-> ZeroByte]
    /\ readN = 0
    /\ watch = "Read"
    /\ dest = <<>>
    /\ direct = FALSE

\* Worker w's first Fprintf has returned (a worker without a pipe goroutine of
\* its own is taken to have written).
WroteBeginning(w) == w \in PipeGoroutines => fprintf[w].pc = "returned"

\* exportDockerImage for images[w], from its first statement.
LiveWorker(w) ==
    \/ /\ w \in PipeGoroutines
       /\ wpc[w] = "writeDockerImage"
       /\ PipeWriterWrite(w) \/ PipeWriterReturn(w)
    \/ /\ WroteBeginning(w)
       /\ exportDockerImage(w)

LiveNext ==
    \/ NewPkg
    \/ createAction
    \/ main
    \/ \E w \in Workers : LiveWorker(w)
    \/ DelegateErrorConsumer
    \/ startPipeWatch

Fairness ==
    /\ WF_vars(NewPkg)
    /\ \A w \in Workers : WF_vars(LiveWorker(w))
    /\ WF_vars(DelegateErrorConsumer)
    /\ WF_vars(startPipeWatch)

LiveSpec == LiveInit /\ [][LiveNext]_vars /\ Fairness

(***************************************************************************)
(* One stream of the reporter up to the end of the process: goroutine 1 is *)
(* createAction, whose write is its last Fprintf to the reporter (the      *)
(* result line); when that write has returned createAction returns and     *)
(* main exits, which stops startPipeWatch wherever it is.                  *)
(***************************************************************************)
OutputInit ==
    /\ images = <<>>
    /\ call = NoCall
    /\ Fresh("done", "unspawned", "receive")
    /\ fprintf \in [PipeGoroutines ->
                       {[pc |-> "Fprintf", msg |-> m, b |-> m] :
                            m \in UNION {{Message(w, n) : n \in 1..MaxMsgLen} :
                                             w \in PipeGoroutines}}]
    /\ \A w \in PipeGoroutines : fprintf[w].msg[1].call = w
    /\ wrMu = 0
    /\ buf = [i \in 1..bufferLen |-> ZeroByte]
    /\ readN = 0
    /\ watch = "Read"
    /\ dest = <<>>
    /\ direct = TRUE

\* createAction's fmt.Fprintf(reporter.OutWriter, ...) has returned.
FprintfReturned ==
    /\ npc = "done"
    /\ fprintf[1].pc = "returned"
    /\ npc' = "return"
    /\ UNCHANGED <<images, spawned, waitGroup, wpc, wloc, sending, cpc, cur,
                   DelegateErrorCount, delegateError, tmpDir, dirFiles,
                   pkgParts, serialized, pkgFile, pkgSigFile, result, exported,
                   reported, returned, dones, call, ret, errLines, stdout,
                   exitError, handled, pipeVars>>

OutputNext ==
    \/ Running /\ PipeNext
    \/ FprintfReturned
    \/ ReturnDelegateError
    \/ main

OutputSpec == OutputInit /\ [][OutputNext]_vars

(***************************************************************************)
(* create.NewPkg called with a reporter that may have been used before:    *)
(* NewPkg takes the *SynchronizedReporter as an argument and nothing in    *)
(* cmdtools or create assigns DelegateErrorCount but the consumer's        *)
(* s.DelegateErrorCount++, so the call starts with the count the reporter  *)
(* has reached: one for every error its consumer has handled.              *)
(***************************************************************************)

\* An error the reporter handled before this call of NewPkg.
EarlierError == DelegateError(FALSE, TRUE, <<"Error of an earlier call">>)

\* What the handler had been invoked with when NewPkg is called: nothing, or
\* one error of an earlier call.
EarlierHandled == {<<>>, <<EarlierError>>}

ReuseInit ==
    /\ images \in ImageLists
    /\ call = NoCall
    /\ ret = NoRet
    /\ npc = "ReadPrivateKey"
    /\ wpc = [w \in Workers |-> "unspawned"]
    /\ cpc = "receive"
    /\ spawned = 0
    /\ waitGroup = 0
    /\ wloc = [w \in Workers |-> NoLocals]
    /\ sending = [p \in Procs |-> NoError]
    /\ cur = NoError
    /\ handled \in EarlierHandled
    /\ DelegateErrorCount = Len(handled)
    /\ delegateError = IF handled = <<>> THEN 0 ELSE ExitCode(EarlierError)
    /\ tmpDir = "none"
    /\ dirFiles = {}
    /\ pkgParts = [w \in Workers |-> <<>>]
    /\ serialized = NoManifest
    /\ pkgFile = Absent
    /\ pkgSigFile = "none"
    /\ result = <<>>
    /\ exported = [w \in Workers |-> <<>>]
    /\ reported = [p \in Procs |-> <<>>]
    /\ returned = 0
    /\ dones = [w \in Workers |-> 0]
    /\ errLines = {}
    /\ stdout = <<>>
    /\ exitError = NotReturned
    /\ PipeIdle

ReuseSpec == ReuseInit /\ [][Next]_vars

(***************************************************************************)
(* Properties                                                              *)
(***************************************************************************)
Spawned == 1..spawned
AllWorkersFinished ==
    spawned = Len(images) /\ \A w \in 1..Len(images) : wpc[w] = "finished"

\* C1: all-or-nothing commit.  If a worker has reported an error through
\* DelegateErr, neither the manifest file nor the signature file is written,
\* and NewPkg returns the empty triple.
AllOrNothingCommit ==
    (\E w \in Workers : reported[w] # <<>>) =>
        /\ pkgFile = Absent
        /\ pkgSigFile = "none"
        /\ (npc = "done" => result = EmptyTriple)

\* C2: counter visibility.  When NewPkg reads DelegateErrorCount after
\* waitGroup.Wait(), the counter counts every DelegateErr call that has
\* returned: after k returned calls it is at least k.
CounterVisibility ==
    npc = "readCount" => DelegateErrorCount >= returned

\* C3 as claimed: whenever the manifest file exists, the part directory
\* exists under its permanent name and holds every part file the manifest
\* references.
ManifestImpliesPartDirectory ==
    pkgFile # Absent =>
        /\ tmpDir = "perm"
        /\ \A part \in pkgFile.parts : part.fileName \in dirFiles

\* C3 as amended: whenever the part directory exists under its permanent
\* name, the manifest file is completely written and the directory holds
\* every part file the manifest references.
PartDirectoryImpliesManifest ==
    tmpDir = "perm" =>
        /\ pkgFile.state = "written"
        /\ \A part \in pkgFile.parts : part.fileName \in dirFiles

\* C3 witness: a committed package directory with a manifest of two parts.
PartDirectoryWithManifest ==
    /\ tmpDir = "perm"
    /\ Cardinality(pkgFile.parts) = 2

\* The positions of NewPkg from the return of waitGroup.Wait() to the rename:
\* the commit step.
CommitSteps ==
    {"readCount", "Build", "WriteFile", "Input", "WriteSigFile", "Chmod",
     "Rename", "returnSuccess"}

\* C4: the commit step never overlaps a worker.  While NewPkg is anywhere
\* from the return of Wait to the rename, every image's worker has been
\* spawned and has executed group.Done.
CommitNeverOverlapsWorker ==
    npc \in CommitSteps =>
        /\ spawned = Len(images)
        /\ \A w \in Spawned : dones[w] >= 1

\* C4 witness: NewPkg about to rename the directory of a two-image build.
RenamingAfterTwoWorkers ==
    npc = "Rename" /\ spawned = 2 /\ \A w \in Spawned : wpc[w] = "finished"

\* C5: commit ordering.  NewPkg reaches the chmod and the rename of the
\* temporary directory only with the manifest file and the signature file
\* written successfully, and a build whose manifest or signature write failed
\* neither renames the directory nor returns a committed outcome.
CommitOrdering ==
    (npc \in {"Chmod", "Rename", "returnSuccess"}
        \/ tmpDir = "perm" \/ result = CommittedTriple) =>
        /\ pkgFile.state = "written"
        /\ pkgSigFile = "written"

\* A worker has returned: its deferred group.Done() is running or has run.
Ended(w) == wpc[w] \in {"Done", "finished"}

\* C6: worker outcome.  A worker registers at most one part and reports at
\* most one error, every error it reports is breaking, it never does both,
\* and once it has returned it has done one of the two.
WorkerOutcome ==
    \A w \in Workers :
        /\ Len(pkgParts[w]) <= 1
        /\ Len(reported[w]) <= 1
        /\ \A i \in 1..Len(reported[w]) : reported[w][i].Breaking
        /\ ~(pkgParts[w] # <<>> /\ reported[w] # <<>>)
        /\ Ended(w) => (pkgParts[w] # <<>> \/ reported[w] # <<>>)

\* C6 witness: two finished workers, one with its part registered and one
\* with its error reported.
WorkersEndedBothWays ==
    \E v, w \in Spawned :
        /\ wpc[v] = "finished" /\ pkgParts[v] # <<>>
        /\ wpc[w] = "finished" /\ reported[w] # <<>>

PartFileInPlace(part) ==
    tmpDir \in {"temp", "perm"} => part.fileName \in dirFiles

\* C8: no mid-flight cancellation.  A worker that is between two of its
\* steps can always take the next one, whatever the other workers reported
\* and whatever the error count is; a worker that finished without reporting
\* an error has its part registered and its part file written; and NewPkg
\* reads the error count only with every worker finished.
NoMidFlightCancellation ==
    /\ \A w \in Workers :
          wpc[w] \in {"writeDockerImage", "Sha256HashOfInput", "AddPart", "Done"}
              => ENABLED exportDockerImage(w)
    /\ \A w \in Workers :
          (wpc[w] = "finished" /\ reported[w] = <<>>) =>
              /\ Len(pkgParts[w]) = 1
              /\ PartFileInPlace(pkgParts[w][1])
    /\ npc = "readCount" => AllWorkersFinished

\* C8 witness: one worker's error has been received and counted while another
\* worker, still running, is about to register its part.
RunningAfterFailure ==
    \E v, w \in Spawned :
        /\ wpc[v] = "finished" /\ reported[v] # <<>>
        /\ DelegateErrorCount >= 1
        /\ wpc[w] = "AddPart"

\* C9: the digest a worker holds in hashWriter (the part id, the stem of the
\* part file name and the value that is signed) is the hash of the
\* uncompressed bytes ExportImage wrote.
DigestOfUncompressed ==
    \A w \in Workers :
        wloc[w].hashWriter # -1 => wloc[w].hashWriter = Sha256(exported[w])

\* An image reference without a ':'.
Untagged(image) == \A i \in 1..Len(image) : image[i] # ":"

\* C10: for an image reference without a ':', and with no call of the
\* environment failing, the call of writeDockerImage fails without any call
\* to the container runtime, whatever ListImages would return, and the worker
\* reports the failure as a user error.
UntaggedRejectedFirst ==
    (ret # NoRet /\ Untagged(call.image) /\ call.fail = "none") =>
        /\ ret.err # ""
        /\ ret.calls = <<>>
        /\ ret.report.UserError

\* The errors reported through DelegateErr so far, and how many there are.
AllReported == UNION {{reported[p][i] : i \in 1..Len(reported[p])} : p \in Procs}
RECURSIVE SumOver(_, _)
SumOver(f, S) ==
    IF S = {} THEN 0
    ELSE LET x == CHOOSE y \in S : TRUE IN f[x] + SumOver(f, S \ {x})
NumReported == SumOver([p \in Procs |-> Len(reported[p])], Procs)

\* How often the error e occurs in the sequence seq.
Occurrences(seq, e) == Cardinality({i \in 1..Len(seq) : seq[i] = e})

\* createAction is past its test of delegateError / has returned.
PastPrintResult == npc \in {"return", "returned", "exited"}
CreateActionReturned == npc \in {"returned", "exited"}

\* C11: the result line is written to the primary output stream if and only
\* if the build committed; a build in which an error was reported through
\* DelegateErr prints no result line (none with empty fields either) and
\* createAction returns a non-nil error.
ResultLineIffCommitted ==
    /\ PastPrintResult =>
          /\ (stdout # <<>>) <=> (result = CommittedTriple)
          /\ AllReported # {} => stdout = <<>>
    /\ CreateActionReturned => (AllReported # {} => exitError # 0)

\* C12: exit status classification.  When a build in which errors were
\* reported has failed, createAction returns exit code 2 if the errors are
\* user errors and 3 if they are system errors, whatever the order in which
\* the consumer handled them.
ExitStatusClassification ==
    (CreateActionReturned /\ AllReported # {}) =>
        /\ (\A e \in AllReported : e.UserError) => exitError = 2
        /\ (\A e \in AllReported : ~e.UserError) => exitError = 3

\* The error the consumer holds between its receive and the return of the
\* handler, as a sequence of none or one.
InFlight == IF cpc \in {"count", "fn"} THEN <<cur>> ELSE <<>>

\* C14: no reported error is lost and handling is serial.  Every DelegateErr
\* call that has returned was received once: it is the one error the consumer
\* holds or one the handler has been invoked with, with the values it was
\* reported with; every error is either still being sent, held by the
\* consumer, or handled, exactly once; at most one error is being handled.
NoErrorLostSerialHandling ==
    /\ Len(handled) + Len(InFlight) = returned
    /\ Len(InFlight) <= 1
    /\ \A e \in AllReported \cup {handled[i] : i \in 1..Len(handled)} :
          Occurrences(handled \o InFlight, e)
              + Cardinality({p \in Procs : sending[p] = e})
            = SumOver([p \in Procs |-> Occurrences(reported[p], e)], Procs)
    /\ cpc \in {"count", "fn"} => cur # NoError

\* C14 witness: the handler has been invoked for the errors of two workers.
TwoErrorsHandled ==
    /\ Len(handled) = 2
    /\ \E v, w \in Spawned : v # w /\ reported[v] # <<>> /\ reported[w] # <<>>

\* C15: when the process exits, the handler has written the message of every
\* error reported through DelegateErr to stderr.
EveryErrorPrintedBeforeExit ==
    npc = "exited" => Len(handled) = NumReported

\* C16 as claimed: on every abort of NewPkg after its workers have run
\* (worker errors, or a failure of the manifest build, write or signing, of
\* chmod or of rename) the summary line is on the diagnostic stream.
SummaryOnEveryAbort ==
    (result = EmptyTriple /\ AllWorkersFinished) => SummaryLine \in errLines

\* C16 as amended: NewPkg writes the summary line exactly when it aborts on
\* a positive DelegateErrorCount read after the join; an abort on the failure
\* of one of its own steps reports that step's error and writes no summary
\* line.
SummaryOnCountedAbortOnly ==
    /\ SummaryLine \in errLines =>
          /\ DelegateErrorCount > 0
          /\ AllWorkersFinished
          /\ npc \notin {"Build", "WriteFile", "Input", "WriteSigFile", "Chmod",
                        "Rename", "returnSuccess"}
          /\ reported[Orchestrator] = <<>>
    /\ result = EmptyTriple =>
          (SummaryLine \in errLines <=> reported[Orchestrator] = <<>>)
    /\ result = CommittedTriple => SummaryLine \notin errLines

\* C16 witness: NewPkg has returned the empty triple after the abort on the
\* error count of a two-image build.
AbortedOnCount ==
    /\ result = EmptyTriple
    /\ SummaryLine \in errLines
    /\ spawned = 2

\* C19: when NewPkg returns the aborted outcome, the permanent directory
\* does not exist, and no file of the build is under it.
AbortLeavesNoPermanentDir ==
    /\ result = EmptyTriple => tmpDir # "perm"
    /\ npc \in {"DelegateErr", "returnEmpty"} => tmpDir # "perm"

\* C19 witness: the aborted outcome returned after os.Rename failed, with
\* part files written.
AbortedAfterRenameFailed ==
    /\ result = EmptyTriple
    /\ reported[Orchestrator] # <<>>
    /\ pkgSigFile = "written"
    /\ \E w \in Spawned : pkgParts[w] # <<>>

\* NewPkg has returned.
NewPkgReturned == npc \in {"done", "return", "returned", "exited"}

PlacesOf(w) == {i \in 1..Len(dest) : dest[i].call = w}

\* How many bytes of write call w startPipeWatch has read and not yet written.
InBuf(w) == IF watch = "Write" /\ buf[1].call = w THEN readN ELSE 0

ExistsLocally == call.image \in call.listed

RegistryHost(image) ==
    LET slashes == {i \in 1..Len(image) : image[i] = "/"}
        colons == {i \in 1..Len(image) : image[i] = ":"}
    IN  IF slashes = {} THEN <<>>
        ELSE LET first == CHOOSE i \in slashes : \A j \in slashes : i <= j
             IN  IF \E c \in colons : c < first THEN <<>>
                 ELSE SubSeq(image, 1, first - 1)

\* The entries of the credential set of the call for a server address.
EntriesFor(serverAddress) ==
    IF call.auth.nil THEN {}
    ELSE {call.auth.Configs[i] : i \in
              {k \in 1..Len(call.auth.Configs) :
                   call.auth.Configs[k].ServerAddress = serverAddress}}

\* C18: credential selection.  When the image is pulled, PullImage is called
\* with an entry of the supplied credential set whose ServerAddress is the
\* registry host of the image reference, and with the empty credential when
\* no entry matches, the reference has no host, or no set is given.
CredentialSelection ==
    (ret # NoRet /\ Occurrences(ret.calls, "PullImage") = 1) =>
        IF RegistryHost(call.image) # <<>> /\ EntriesFor(RegistryHost(call.image)) # {}
        THEN ret.pullAuth \in EntriesFor(RegistryHost(call.image))
        ELSE ret.pullAuth = NoAuth

\* C18 witness: a pull with the matching entry of a set that also holds an
\* entry for another server.
PulledWithMatchingEntry ==
    /\ ret # NoRet
    /\ Occurrences(ret.calls, "PullImage") = 1
    /\ ~call.auth.nil /\ Len(call.auth.Configs) = 2
    /\ \E i \in 1..2 : call.auth.Configs[i].ServerAddress # RegistryHost(call.image)
    /\ ret.pullAuth # NoAuth
    /\ ret.pullAuth.ServerAddress = RegistryHost(call.image)

\* C21: on a committed build the registered parts correspond one to one with
\* the input images: every image's worker made one AddPart call that
\* registered a part, described by that image reference, and there are
\* len(images) registered parts in all.
PartsMatchImages ==
    result = CommittedTriple =>
        /\ \A w \in 1..Len(images) :
              /\ Len(pkgParts[w]) = 1
              /\ pkgParts[w][1].description = images[w]
        /\ SumOver([w \in Workers |-> Len(pkgParts[w])], Workers) = Len(images)

\* C22: partial failure of the commit phase is invisible in the output
\* directory.  When NewPkg has returned the empty triple because one of its
\* steps after the join failed (Build, the manifest write, sign.Input, the
\* signature write, chmod, rename), neither <packageID>.json nor
\* <packageID>.json.sig is in the output directory.
CommitFailureInvisible ==
    (result = EmptyTriple /\ AllWorkersFinished /\ reported[Orchestrator] # <<>>) =>
        /\ pkgFile = Absent
        /\ pkgSigFile = "none"

\* NewPkg has reported the failure of pkgBuilder.Build.
BuildFailed ==
    reported[Orchestrator] # <<>>
        /\ reported[Orchestrator][1].msg = <<"Error building package">>

\* C23: a failure of pkgBuilder.Build aborts the build.  NewPkg reports
\* exactly one error for it, a breaking system error, and it is the only
\* error of a build whose workers reported none; no manifest or signature
\* file is written, the temporary directory is not renamed, NewPkg takes no
\* further commit step and returns the empty triple.
BuildFailureAborts ==
    BuildFailed =>
        /\ Len(reported[Orchestrator]) = 1
        /\ reported[Orchestrator][1] = DelegateError(FALSE, TRUE, <<"Error building package">>)
        /\ (\A w \in Workers : reported[w] = <<>>) => NumReported = 1
        /\ pkgFile = Absent
        /\ pkgSigFile = "none"
        /\ serialized = NoManifest
        /\ tmpDir # "perm"
        /\ npc \in {"DelegateErr", "returnEmpty"} \/ NewPkgReturned
        /\ NewPkgReturned => result = EmptyTriple

\* C23 witness: NewPkg has returned from a two-image build, both parts
\* registered and no worker error, whose pkgBuilder.Build failed.
ReturnedAfterBuildFailed ==
    /\ BuildFailed
    /\ NewPkgReturned
    /\ spawned = 2
    /\ \A w \in Spawned : pkgParts[w] # <<>>

\* Caller p is inside DelegateErr, its send pending; it has returned from it.
Blocked(p) == IF p = Orchestrator THEN npc = "DelegateErr" ELSE wpc[p] = "DelegateErr"
Unblocked(p) ==
    IF p = Orchestrator THEN npc = AfterDelegateErr(p) ELSE wpc[p] = AfterDelegateErr(p)

\* C24: rendezvous reporting.  A DelegateErr call returns only in the step
\* in which the consumer goroutine, waiting at its receive, takes that very
\* error; so every returned call's error is held by the consumer or was
\* handed to the handler.  While no consumer is registered, or the consumer
\* is between a receive and the return of the handler, no blocked call can
\* return, and as long as no consumer is registered none has returned.
RendezvousReporting ==
    /\ [](/\ \A p \in Procs : Blocked(p) =>
                 /\ sending[p] # NoError
                 /\ sending[p] = reported[p][Len(reported[p])]
          /\ Cardinality({p \in Procs : Unblocked(p)}) = Len(handled) + Len(InFlight)
          /\ \A p \in Procs : Unblocked(p) =>
                 \E i \in 1..Len(handled \o InFlight) :
                     (handled \o InFlight)[i] = reported[p][1]
          /\ cpc = "unregistered" =>
                 /\ returned = 0
                 /\ \A p \in Procs : ~Unblocked(p) /\ ~ENABLED Receive(p)
          /\ cpc \in {"count", "fn"} =>
                 \A p \in Procs : ~ENABLED Receive(p))
    /\ [][\A p \in Procs :
              (Blocked(p) /\ ~Blocked(p)') =>
                  /\ cpc = "receive"
                  /\ cpc' = "count"
                  /\ cur' = sending[p]
                  /\ Unblocked(p)']_vars

\* C24 witness: the consumer is inside the handler for one caller's error,
\* that caller has returned, and another caller is still blocked.
BlockedBehindHandler ==
    /\ cpc = "fn"
    /\ \E p, q \in Procs : p # q /\ Unblocked(p) /\ Blocked(q) /\ cur = reported[p][1]

\* The messages of exportDockerImage whose first %v is the image reference,
\* and whether the error e is one of them, for image.
ImageFormats == {"Error writing docker image", "Error hashing docker image"}
NamesImage(e, image) == e.msg[1] \in ImageFormats /\ e.msg[2] = image

\* C25: every error a worker reports names the image the worker was given,
\* whichever step failed.
WorkerErrorsNameImage ==
    \A w \in Workers :
        \A i \in 1..Len(reported[w]) : NamesImage(reported[w][i], images[w])

\* Worker w's writeDockerImage has renamed its compressed file to its final
\* name.
Renamed(w) == wloc[w].fileName # NoFile

\* C26 as claimed: no two workers of one build rename to the same final part
\* file path, for every image list.
DistinctFinalPaths ==
    \A v, w \in Workers :
        (v # w /\ Renamed(v) /\ Renamed(w)) => wloc[v].fileName # wloc[w].fileName

\* C26 as amended: two workers of one build rename to the same final part
\* file path exactly when the content exported for them is byte-identical
\* (the name is the digest of the compressed content); workers with
\* different content get different paths, and each renamed file is in the
\* build directory while that directory exists.  The temporary files left in
\* the directory carry the unique suffix of one worker each, a worker whose
\* writeDockerImage failed.
FinalPathsByContent ==
    /\ \A v, w \in Workers :
          (v # w /\ Renamed(v) /\ Renamed(w)) =>
              (wloc[v].fileName = wloc[w].fileName <=> exported[v] = exported[w])
    /\ \A w \in Workers :
          Renamed(w) =>
              /\ wloc[w].fileName = PartFileName(Sha256(Gzip(exported[w])))
              /\ PartFileInPlace(wloc[w])
    /\ \A f \in dirFiles :
          f[1] \in {"tar", "tgz"} =>
              /\ f[2] \in Spawned
              /\ ~Renamed(f[2])
              /\ reported[f[2]] # <<>>

\* C26 witness: two workers exported different content and renamed their
\* files, and both files are in the build directory.
TwoPartFiles ==
    \E v, w \in Spawned :
        /\ Renamed(v) /\ Renamed(w)
        /\ exported[v] # exported[w]
        /\ {wloc[v].fileName, wloc[w].fileName} \subseteq dirFiles
        /\ wloc[v].fileName # wloc[w].fileName

\* The messages of the errors NewPkg reports before it starts a worker: for
\* sign.ReadPrivateKey, and for NewDockerImagePkgBuilder and ioutil.TempDir
\* (one text for both).
KeyMessage == "Error reading RSA PSS private key"
InitMessages == {KeyMessage, "Error setting up Pkg builder"}

\* NewPkg has reported the failure of one of its initialization steps.
InitFailed ==
    reported[Orchestrator] # <<>> /\ reported[Orchestrator][1].msg[1] \in InitMessages

\* C27: initialization failures of NewPkg.  Each reports exactly one error,
\* breaking, a user error for the unreadable key and a system error
\* otherwise; no worker is spawned, nothing is created in the output
\* directory, and NewPkg returns the empty triple.
InitFailureOutcome ==
    InitFailed =>
        /\ NumReported = 1
        /\ reported[Orchestrator][1].Breaking
        /\ reported[Orchestrator][1].UserError
              <=> reported[Orchestrator][1].msg[1] = KeyMessage
        /\ spawned = 0 /\ waitGroup = 0
        /\ \A w \in Workers : wpc[w] = "unspawned"
        /\ tmpDir = "none" /\ dirFiles = {}
        /\ pkgFile = Absent /\ pkgSigFile = "none"
        /\ npc \in {"DelegateErr", "returnEmpty"} \/ NewPkgReturned
        /\ NewPkgReturned => result = EmptyTriple

\* C27 witness: NewPkg has returned after the package builder or the
\* temporary directory could not be created.
ReturnedAfterInitFailed ==
    /\ InitFailed
    /\ ~reported[Orchestrator][1].UserError
    /\ result = EmptyTriple

\* The output directory, the private key file, the image list, the author or
\* the URL base is missing or unusable.
InputMissingOrUnusable ==
    \/ call.outputdir # "dir"
    \/ call.privatekey # "file"
    \/ images = <<>>
    \/ call.author = ""
    \/ call.parturlbase \in {"", "unparsable"}

Termination ==
    /\ <>NewPkgReturned
    /\ [](NewPkgReturned =>
             /\ \A p \in Procs : ~Blocked(p)
             /\ \A w \in PipeGoroutines : fprintf[w].pc # "Write"
             /\ spawned > 0 => AllWorkersFinished)

\* C29 witness: NewPkg has returned from a two-image build in which both
\* workers wrote their first line through the pipe, one worker failed and
\* one registered its part.
ReturnedAfterMixedBuild ==
    /\ NewPkgReturned
    /\ spawned = 2
    /\ \A w \in Spawned : fprintf[w].pc = "returned" /\ Cardinality(PlacesOf(w)) = MaxMsgLen
    /\ \E v, w \in Spawned : reported[v] # <<>> /\ pkgParts[w] # <<>>

\* Every byte of write call w is at the destination.
Delivered(w) == Cardinality(PlacesOf(w)) = Len(fprintf[w].msg)

\* C30: output reaches its destination before exit.  When the process has
\* exited, every write call to the reporter's stream that had returned, the
\* result line of createAction among them, has all its bytes written to the
\* destination by startPipeWatch.
OutputBeforeExit ==
    npc = "exited" =>
        \A w \in PipeGoroutines : fprintf[w].pc = "returned" => Delivered(w)

\* The reporter had handled an error before NewPkg was called.
HandledBefore == handled # <<>> /\ handled[1] = EarlierError

\* The steps of NewPkg after the check of the counter that follows the join.
PastCountCheck ==
    npc \in {"Build", "WriteFile", "Input", "WriteSigFile", "Chmod", "Rename",
             "returnSuccess"}

\* C31: the counter only grows.  DelegateErrorCount is always the number of
\* errors the consumer has counted over the life of the reporter (those the
\* handler was invoked with, and the one it is about to be invoked with);
\* the only step that changes it is the consumer's increment by one for the
\* error it has just received.  So a NewPkg call on a reporter that had
\* handled an error never passes the check after its join: it reaches no
\* commit step, never renames the directory, and returns the empty triple,
\* with the summary line once the join was passed, whatever its own workers
\* did.
CounterOnlyGrows ==
    /\ [](/\ DelegateErrorCount = Len(handled) + (IF cpc = "fn" THEN 1 ELSE 0)
          /\ HandledBefore =>
                /\ ~PastCountCheck
                /\ tmpDir # "perm"
                /\ result \in {<<>>, EmptyTriple}
                /\ (npc = "returnEmpty" /\ waitGroup = 0 /\ spawned = Len(images)
                       /\ sending[Orchestrator] = NoError
                       /\ reported[Orchestrator] = <<>>)
                      => SummaryLine \in errLines)
    /\ [][\/ DelegateErrorCount' = DelegateErrorCount
          \/ /\ DelegateErrorCount' = DelegateErrorCount + 1
             /\ cpc = "count"
             /\ cpc' = "fn"]_vars

\* Witness of C31: NewPkg was called on a reporter that had handled an
\* error; every worker of the call succeeded and registered its part, no
\* error was reported during the call, and NewPkg returned the empty triple
\* after writing the summary line.
AbortedAlthoughAllSucceeded ==
    /\ HandledBefore
    /\ Len(images) = MaxImages
    /\ AllWorkersFinished
    /\ \A w \in 1..Len(images) : Len(pkgParts[w]) = 1
    /\ \A p \in Procs : reported[p] = <<>>
    /\ DelegateErrorCount = 1
    /\ result = EmptyTriple
    /\ SummaryLine \in errLines

\* C32: the committed directory holds the part files and nothing else.  Once
\* NewPkg has renamed the build directory to its permanent name, the files in
\* it are exactly the digest-named files of the registered parts: no
\* temporary export (.tar) or temporary compressed (.tgz) file of a worker is
\* left, and every registered part has its file there.
CommittedDirectoryExact ==
    tmpDir = "perm" =>
        dirFiles = {part.fileName : part \in RegisteredParts}

====
